---- MODULE Spec2Model ----
(***************************************************************************)
(* Synapse "digital twin" mind map: the graph store held by App            *)
(* (mindMap), the change-proposal reconciler (handleApplyChanges), the     *)
(* direct node edit of the MindMap component, and the task projection      *)
(* (syncTasks / updateTaskInMindMap with the TaskWidget component).        *)
(*                                                                         *)
(* A JavaScript object is a TLA+ record whose DOMAIN is the set of keys   *)
(* the object carries; an optional value (T | null) is a sequence of       *)
(* length 0 or 1; an array is a sequence.                                  *)
(***************************************************************************)
EXTENDS Integers, Sequences, FiniteSets, TLC

VARIABLES
    mindMap,         \* App: useState<MindMapData>
    tasks,           \* App: useState<Task[]>
    isSyncingTasks,  \* App: useState(false)
    syncs,           \* outstanding extractTasksFromMindMap calls, in start order
    selectedNode,    \* MindMap: useState<MindNode | null>
    isEditing,       \* MindMap: useState(false)
    editNode,        \* MindMap: useState<MindNode | null>
    editingTaskId,   \* TaskWidget: useState<string | null>
    editValues,      \* TaskWidget: useState<Partial<Task>>
    touched,         \* history: form fields changed since handleEditClick
    last,            \* history: the App handler that called setMindMap last
    lastProposal,    \* history: the proposal of that call, if it was
                     \* handleApplyChanges
    replayed,        \* history: that call and the setMindMap call before it
                     \* were handleApplyChanges of the same proposal
    version,         \* history: the number of setMindMap calls so far, which
                     \* names the mindMap object of the current render
    settled,         \* history: how the syncTasks call that completed last
                     \* ended, with the list it got and the mindMap it read
    messages,        \* ChatWindow: useState<ChatMessage[]>
    input,           \* ChatWindow: useState('')
    isProcessing,    \* ChatWindow: useState(false)
    calls,           \* outstanding processBrainInput calls, in start order
    isListening,     \* ChatWindow: useState(false)
    recognition,     \* what the SpeechRecognition object of recognitionRef is
                     \* doing
    outcome          \* history: how the processBrainInput call that completed
                     \* last ended

vars == <<mindMap, tasks, isSyncingTasks, syncs, selectedNode, isEditing,
          editNode, editingTaskId, editValues, touched, last, lastProposal,
          replayed, version, settled, messages, input, isProcessing,
          calls, isListening, recognition, outcome>>

\* The state of the ChatWindow component.
chat == <<messages, input, isProcessing, calls, isListening, recognition,
          outcome>>

(***************************************************************************)
(* Bounds of the exploration.                                              *)
(***************************************************************************)
\* setMindMap calls explored from the seed graph.
MaxOps == 2
\* Messages the user sends in the chat.
MaxSends == 2
\* Outstanding extractTasksFromMindMap calls beyond which the timer and the
\* sync button start no further one.
MaxSyncs == 2

(***************************************************************************)
(* JavaScript values.                                                      *)
(***************************************************************************)
\* The value read from a key an object does not carry.
UNDEFINED == "undefined"

\* {} : the object without keys.
EmptyObj == [f \in {} |-> UNDEFINED]

\* obj.key for a string-valued key.
Get(obj, key) == IF key \in DOMAIN obj THEN obj[key] ELSE UNDEFINED

\* { ...a, ...b }
Spread(a, b) ==
    [f \in DOMAIN a \cup DOMAIN b |-> IF f \in DOMAIN b THEN b[f] ELSE a[f]]

NodeTypes == {"concept", "task", "person", "event", "resource"}
Priorities == {"high", "medium", "low"}

INITIAL_DATA ==
    [nodes |-> <<
        [id |-> "me", label |-> "My Consciousness", type |-> "concept",
         icon |-> "brain", description |-> "The root of my digital twin.",
         x |-> 0, y |-> 0],
        [id |-> "work", label |-> "Work", type |-> "concept",
         icon |-> "briefcase", description |-> "Professional life and goals.",
         x |-> 150, y |-> 50],
        [id |-> "health", label |-> "Health", type |-> "concept",
         icon |-> "muscle", description |-> "Physical and mental well-being.",
         x |-> -150, y |-> 50] >>,
     edges |-> <<
        [id |-> "e1", source |-> "me", target |-> "work"],
        [id |-> "e2", source |-> "me", target |-> "health"] >>]

(***************************************************************************)
(* handleApplyChanges (App).                                               *)
(***************************************************************************)
\* proposal.nodesToAdd || []
ListOf(proposal, key) == IF key \in DOMAIN proposal THEN proposal[key] ELSE <<>>

\* arr.find(n => n.id === id) is not undefined
HasId(arr, id) == \E i \in 1..Len(arr) : Get(arr[i], "id") = id

\* arr.findIndex(n => n.id === id); 0 stands for the source's -1
FindIndex(arr, id) ==
    IF HasId(arr, id)
    THEN CHOOSE i \in 1..Len(arr) :
            /\ Get(arr[i], "id") = id
            /\ \A j \in 1..(i - 1) : Get(arr[j], "id") # id
    ELSE 0

\* PushNode that pushes nothing.
PushNodeNever(newNodes, node) == newNodes

\* PushNode without the presence check.
PushNodeAlways(newNodes, node) == Append(newNodes, node)

\* PushNode as an upsert: an entry whose id is there replaces the node.
PushNodeOverwrite(newNodes, node) ==
    IF ~HasId(newNodes, Get(node, "id")) THEN Append(newNodes, node)
    ELSE [i \in 1..Len(newNodes) |->
            IF Get(newNodes[i], "id") = Get(node, "id") THEN node ELSE newNodes[i]]

\* The body of nodesToAdd.forEach: push unless the id is already there.
PushNode(newNodes, node) ==
    IF ~HasId(newNodes, Get(node, "id")) THEN Append(newNodes, node) ELSE newNodes

\* MergeUpdate storing the entry in place of the node instead of merging.
MergeUpdateReplace(newNodes, update) ==
    LET idx == FindIndex(newNodes, Get(update, "id"))
    IN  IF idx # 0 THEN [newNodes EXCEPT ![idx] = update] ELSE newNodes

\* MergeUpdate as an upsert: an entry whose id is unknown is pushed.
MergeUpdateUpsert(newNodes, update) ==
    LET idx == FindIndex(newNodes, Get(update, "id"))
    IN  IF idx # 0
        THEN [newNodes EXCEPT ![idx] = Spread(newNodes[idx], update)]
        ELSE Append(newNodes, update)

\* The body of nodesToUpdate.forEach: shallow-merge into the node found by id.
MergeUpdate(newNodes, update) ==
    LET idx == FindIndex(newNodes, Get(update, "id"))
    IN  IF idx # 0
        THEN [newNodes EXCEPT ![idx] = Spread(newNodes[idx], update)]
        ELSE newNodes

\* PushEdge that pushes nothing.
PushEdgeNever(newEdges, edge) == newEdges

\* PushEdge without the presence check.
PushEdgeAlways(newEdges, edge) == Append(newEdges, edge)

\* The body of edgesToAdd.forEach: push unless the id is already there.
PushEdge(newEdges, edge) ==
    IF ~HasId(newEdges, Get(edge, "id")) THEN Append(newEdges, edge) ELSE newEdges

\* nodesToAdd.forEach(...), in list order.
RECURSIVE AddNodes(_, _)
AddNodes(newNodes, nodesToAdd) ==
    IF nodesToAdd = <<>> THEN newNodes
    ELSE AddNodes(PushNode(newNodes, Head(nodesToAdd)), Tail(nodesToAdd))

\* nodesToUpdate.forEach(...), in list order.
RECURSIVE UpdateNodes(_, _)
UpdateNodes(newNodes, nodesToUpdate) ==
    IF nodesToUpdate = <<>> THEN newNodes
    ELSE UpdateNodes(MergeUpdate(newNodes, Head(nodesToUpdate)), Tail(nodesToUpdate))

\* edgesToAdd.forEach(...), in list order.
RECURSIVE AddEdges(_, _)
AddEdges(newEdges, edgesToAdd) ==
    IF edgesToAdd = <<>> THEN newEdges
    ELSE AddEdges(PushEdge(newEdges, Head(edgesToAdd)), Tail(edgesToAdd))

\* handleApplyChanges with the updates merged before the nodes are added.
handleApplyChangesUpdateFirst(prev, proposal) ==
    LET updated == UpdateNodes(prev.nodes, ListOf(proposal, "nodesToUpdate"))
        added   == AddNodes(updated, ListOf(proposal, "nodesToAdd"))
        edges   == AddEdges(prev.edges, ListOf(proposal, "edgesToAdd"))
    IN  [nodes |-> added, edges |-> edges]

\* The updater handleApplyChanges passes to setMindMap.
handleApplyChanges(prev, proposal) ==
    LET added   == AddNodes(prev.nodes, ListOf(proposal, "nodesToAdd"))
        updated == UpdateNodes(added, ListOf(proposal, "nodesToUpdate"))
        edges   == AddEdges(prev.edges, ListOf(proposal, "edgesToAdd"))
    IN  [nodes |-> updated, edges |-> edges]

(***************************************************************************)
(* updateTaskInMindMap and handleUpdateNode (App).                         *)
(***************************************************************************)
\* TaskFields with the two dates written to each other's key.
TaskFieldsSwapped(updatedTask) ==
    [label        |-> Get(updatedTask, "title"),
     date         |-> Get(updatedTask, "reminderDate"),
     reminderDate |-> Get(updatedTask, "dueDate"),
     priority     |-> Get(updatedTask, "urgency"),
     isCompleted  |-> updatedTask.completed]

\* The object literal written over a node by a task write-back.
TaskFields(updatedTask) ==
    [label        |-> Get(updatedTask, "title"),
     date         |-> Get(updatedTask, "dueDate"),
     reminderDate |-> Get(updatedTask, "reminderDate"),
     priority     |-> Get(updatedTask, "urgency"),
     isCompleted  |-> updatedTask.completed]

\* The function updateTaskInMindMap maps over prev.nodes.
WriteBack(node, updatedTask) ==
    IF Get(node, "id") = Get(updatedTask, "nodeId")
    THEN Spread(node, TaskFields(updatedTask))
    ELSE node

\* The updater updateTaskInMindMap passes to setMindMap.
updateTaskInMindMap(prev, updatedTask) ==
    [prev EXCEPT !.nodes =
        [i \in 1..Len(prev.nodes) |-> WriteBack(prev.nodes[i], updatedTask)]]

\* The function handleUpdateNode maps over prev.nodes.
ReplaceNode(n, updatedNode) ==
    IF Get(n, "id") = Get(updatedNode, "id") THEN updatedNode ELSE n

\* The node edit, had it kept the edited node alone.
handleUpdateNodeOnly(prev, updatedNode) ==
    [prev EXCEPT !.nodes = <<updatedNode>>]

\* The updater handleUpdateNode passes to setMindMap.
handleUpdateNode(prev, updatedNode) ==
    [prev EXCEPT !.nodes =
        [i \in 1..Len(prev.nodes) |-> ReplaceNode(prev.nodes[i], updatedNode)]]

(***************************************************************************)
(* Inputs: what the assistant, the task extraction and the user may supply.*)
(***************************************************************************)
\* The sequences over S of length 0, 1 or 2.
Lists(S) == {<<>>} \cup {<<a>> : a \in S} \cup {<<a, b>> : a \in S, b \in S}

\* Entries the assistant may put in nodesToAdd.
GymNode == [id |-> "gym", label |-> "Gym", type |-> "resource"]
GymTaskNode ==
    [id |-> "gym", label |-> "Gym session", type |-> "task",
     description |-> "Leg day", date |-> "Mon", priority |-> "low"]
WorkAgainNode ==
    [id |-> "work", label |-> "Work again", type |-> "concept",
     description |-> "A second work node."]
NodesToAddEntries == {GymNode, GymTaskNode, WorkAgainNode}

\* Entries the assistant may put in nodesToUpdate.
NodesToUpdateEntries ==
    { [id |-> "work", label |-> "L2"],
      [id |-> "work", label |-> "L3", priority |-> "high"],
      [id |-> "gym", description |-> "D2"],
      [id |-> "ghost", label |-> "X"] }

\* Entries the assistant may put in edgesToAdd.
EdgesToAddEntries ==
    { [id |-> "e3", source |-> "health", target |-> "gym"],
      [id |-> "e3", source |-> "me", target |-> "gym", label |-> "suggested"],
      [id |-> "e1", source |-> "work", target |-> "health"],
      [id |-> "e4", source |-> "health", target |-> "ghost"] }

\* JSON.parse drops nothing and adds nothing: a list the reply leaves out is
\* a key the proposal does not carry.
WithoutEmptyLists(p) ==
    [k \in {k \in DOMAIN p : p[k] # <<>>} |-> p[k]]

FullProposals ==
    { [nodesToAdd |-> a, nodesToUpdate |-> u, edgesToAdd |-> e] :
        a \in Lists(NodesToAddEntries), u \in Lists(NodesToUpdateEntries),
        e \in Lists(EdgesToAddEntries) }

EntryCount(p) ==
    Len(ListOf(p, "nodesToAdd")) + Len(ListOf(p, "nodesToUpdate"))
        + Len(ListOf(p, "edgesToAdd"))

\* The change proposals the assistant may return (MindMapChangeProposal).
Proposals ==
    LET small == {p \in FullProposals : EntryCount(p) <= 2}
    IN  small \cup {WithoutEmptyLists(p) : p \in {q \in small : EntryCount(q) <= 1}}

\* Tasks the extraction may return (Task).
WorkTask ==
    [id |-> "t1", title |-> "Finish report", dueDate |-> "Fri",
     urgency |-> "medium", completed |-> FALSE, nodeId |-> "work"]
LostTask ==
    [id |-> "t2", title |-> "Lost", reminderDate |-> "Thu",
     urgency |-> "low", completed |-> FALSE, nodeId |-> "ghost"]
BlankTask ==
    [id |-> "", title |-> "Call back", urgency |-> "high",
     completed |-> FALSE, nodeId |-> "work"]
TaskEntries == {WorkTask, LostTask, BlankTask}

\* The task lists extractTasksFromMindMap may resolve to: what the service
\* answered, or [] when the answer does not parse.
TaskReplies == {l \in Lists(TaskEntries) : Len(l) < 2 \/ l[1] # l[2]}

\* Values typed into the node edit form (MindMap) and the task edit form
\* (TaskWidget).
NodeFormInputs == {<<"label", "Renamed">>}
TaskFormInputs == {<<"title", "New">>, <<"urgency", "high">>}

\* The proposals applied while the edit forms are explored.
FewProposals ==
    { [nodesToAdd |-> <<GymNode, GymTaskNode>>, nodesToUpdate |-> <<>>,
       edgesToAdd |-> <<[id |-> "e3", source |-> "health", target |-> "gym"],
                        [id |-> "e3", source |-> "me", target |-> "gym",
                         label |-> "suggested"]>>],
      [nodesToAdd |-> <<>>,
       nodesToUpdate |-> <<[id |-> "work", label |-> "L3", priority |-> "high"]>>,
       edgesToAdd |-> <<>>] }

(***************************************************************************)
(* App: syncTasks and the effect that calls it.                            *)
(***************************************************************************)
\* syncTasks up to its await: the call holds the mindMap object of the render
\* whose closure it is.
SyncStarted(mapVersion) ==
    /\ isSyncingTasks' = TRUE
    /\ syncs' = Append(syncs, [mindMap |-> mapVersion])

\* A setMindMap call, had the effect not run again.
SetMindMapNoSync(next) ==
    /\ version < MaxOps
    /\ mindMap' = next
    /\ version' = version + 1
    /\ UNCHANGED <<isSyncingTasks, syncs>>

\* A setMindMap call and the effect it triggers: syncTasks is rebuilt for the
\* new mindMap, the interval is replaced and syncTasks() runs once.
SetMindMap(next) ==
    /\ version < MaxOps
    /\ mindMap' = next
    /\ version' = version + 1
    /\ SyncStarted(version + 1)

\* The outstanding calls, had the completion of one ended them all.
RemoveAll(seq, i) == <<>>

RemoveAt(seq, i) == SubSeq(seq, 1, i - 1) \o SubSeq(seq, i + 1, Len(seq))

\* setInterval(syncTasks, 1 hour) fires.
TimerSync ==
    /\ Len(syncs) < MaxSyncs
    /\ SyncStarted(version)
    /\ UNCHANGED <<chat, settled, mindMap, tasks, selectedNode, isEditing, editNode,
                   editingTaskId, editValues, touched, last, lastProposal, replayed, version>>

\* TaskWidget's "Scan Brain Map" button: onManualSync = syncTasks.
ManualSync ==
    /\ Len(syncs) < MaxSyncs
    /\ SyncStarted(version)
    /\ UNCHANGED <<chat, settled, mindMap, tasks, selectedNode, isEditing, editNode,
                   editingTaskId, editValues, touched, last, lastProposal, replayed, version>>

\* The resolution of an extraction, had it kept the tasks the list holds.
SyncResolvedMerge(i, extractedTasks) ==
    /\ tasks' = tasks \o extractedTasks
    /\ isSyncingTasks' = FALSE
    /\ syncs' = RemoveAt(syncs, i)
    /\ settled' = <<"resolved", extractedTasks, syncs[i].mindMap>>
    /\ UNCHANGED <<chat, mindMap, selectedNode, isEditing, editNode,
                   editingTaskId, editValues, touched, last, lastProposal, replayed, version>>

\* An outstanding extraction resolves: setTasks(extractedTasks), then finally.
SyncResolved(i, extractedTasks) ==
    /\ tasks' = extractedTasks
    /\ isSyncingTasks' = FALSE
    /\ syncs' = RemoveAt(syncs, i)
    /\ settled' = <<"resolved", extractedTasks, syncs[i].mindMap>>
    /\ UNCHANGED <<chat, mindMap, selectedNode, isEditing, editNode,
                   editingTaskId, editValues, touched, last, lastProposal, replayed, version>>

\* An outstanding extraction rejects: the catch logs, then finally.
SyncRejected(i) ==
    /\ isSyncingTasks' = FALSE
    /\ syncs' = RemoveAt(syncs, i)
    /\ settled' = <<"rejected", tasks, syncs[i].mindMap>>
    /\ UNCHANGED <<chat, mindMap, tasks, selectedNode, isEditing, editNode,
                   editingTaskId, editValues, touched, last, lastProposal, replayed, version>>

(***************************************************************************)
(* geminiService: extractTasksFromMindMap, from the answer of the service  *)
(* to the promise syncTasks awaits.                                        *)
(***************************************************************************)
\* The texts the service answers an extraction with: two task lists in JSON
\* and a text that is no JSON.
ExtractionTexts == {"[t1]", "[t2,t1]", "Here are your tasks:"}

\* JSON.parse(text): the value in a sequence of length 1, or <<>> when it
\* throws.
ParseJSON(text) ==
    CASE text = "[t1]"    -> <<<<WorkTask>>>>
      [] text = "[t2,t1]" -> <<<<LostTask, WorkTask>>>>
      [] OTHER            -> <<>>

\* How ai.models.generateContent ends: it throws, or it returns a response
\* with a text.
ServiceOutcomes ==
    {[threw |-> TRUE]} \cup {[threw |-> FALSE, text |-> t] : t \in ExtractionTexts}

\* extractTasksFromMindMap, had it passed the parse error on.
extractTasksFromMindMapRethrow(answer) ==
    IF answer.threw \/ ParseJSON(answer.text) = <<>>
    THEN [ok |-> FALSE]
    ELSE [ok |-> TRUE, value |-> ParseJSON(answer.text)[1]]

\* How the promise of extractTasksFromMindMap settles: rejected when the call
\* throws, resolved with the parsed list, resolved with [] when the parse
\* throws.
extractTasksFromMindMap(answer) ==
    IF answer.threw THEN [ok |-> FALSE]
    ELSE IF ParseJSON(answer.text) = <<>> THEN [ok |-> TRUE, value |-> <<>>]
    ELSE [ok |-> TRUE, value |-> ParseJSON(answer.text)[1]]

\* The service ends call i and syncTasks goes on after its await.
ExtractionSettled(i, answer) ==
    IF extractTasksFromMindMap(answer).ok
    THEN SyncResolved(i, extractTasksFromMindMap(answer).value)
    ELSE SyncRejected(i)

(***************************************************************************)
(* App: the three writers of mindMap.                                      *)
(***************************************************************************)
\* App's handleApplyChanges(proposal), the onApplyChanges of the ChatWindow.
onApplyChanges(proposal) ==
    /\ SetMindMap(handleApplyChanges(mindMap, proposal))
    /\ last' = "handleApplyChanges"
    /\ lastProposal' = <<proposal>>
    /\ replayed' = (lastProposal = <<proposal>>)
    /\ UNCHANGED <<settled, tasks, selectedNode, isEditing, editNode,
                   editingTaskId, editValues, touched>>

\* A proposal is applied to the store; the chat that delivered it is left
\* out.
ApplyChanges(proposal) ==
    /\ onApplyChanges(proposal)
    /\ UNCHANGED chat

(***************************************************************************)
(* MindMap: selection and the node edit form.                              *)
(***************************************************************************)
\* A click on the circle of node i.
ClickNode(i) ==
    /\ selectedNode' = <<mindMap.nodes[FindIndex(mindMap.nodes, Get(mindMap.nodes[i], "id"))]>>
    /\ UNCHANGED <<chat, settled, mindMap, tasks, isSyncingTasks, syncs, isEditing, editNode,
                   editingTaskId, editValues, touched, last, lastProposal, replayed, version>>

\* A click on the svg background.
ClickBackground ==
    /\ selectedNode' = <<>>
    /\ UNCHANGED <<chat, settled, mindMap, tasks, isSyncingTasks, syncs, isEditing, editNode,
                   editingTaskId, editValues, touched, last, lastProposal, replayed, version>>

\* The panel shows the node's details and the edit button.
DetailsShown == selectedNode # <<>> /\ ~isEditing
\* The panel shows the edit form.
FormShown == selectedNode # <<>> /\ isEditing

handleEditClick ==
    /\ DetailsShown
    /\ editNode' = selectedNode
    /\ isEditing' = TRUE
    /\ touched' = {}
    /\ UNCHANGED <<chat, settled, mindMap, tasks, isSyncingTasks, syncs, selectedNode,
                   editingTaskId, editValues, last, lastProposal,
                   replayed, version>>

\* onChange of a form field: setEditNode(prev => prev ? {...prev, key: value} : null)
ChangeField(key, value) ==
    /\ FormShown
    /\ editNode' = IF editNode # <<>>
                   THEN <<Spread(editNode[1], [k \in {key} |-> value])>>
                   ELSE <<>>
    /\ touched' = touched \cup {key}
    /\ UNCHANGED <<chat, settled, mindMap, tasks, isSyncingTasks, syncs, selectedNode, isEditing,
                   editingTaskId, editValues, last, lastProposal,
                   replayed, version>>

\* The form's X button.
CancelEdit ==
    /\ FormShown
    /\ isEditing' = FALSE
    /\ UNCHANGED <<chat, settled, mindMap, tasks, isSyncingTasks, syncs, selectedNode, editNode,
                   editingTaskId, editValues, touched, last, lastProposal, replayed, version>>

saveEdit ==
    /\ FormShown
    /\ editNode # <<>>
    /\ SetMindMap(handleUpdateNode(mindMap, editNode[1]))
    /\ selectedNode' = editNode
    /\ isEditing' = FALSE
    /\ last' = "handleUpdateNode"
    /\ lastProposal' = <<>>
    /\ replayed' = FALSE
    /\ UNCHANGED <<chat, settled, tasks, editNode, editingTaskId, editValues, touched>>

(***************************************************************************)
(* TaskWidget: the completion toggle and the task edit form.               *)
(***************************************************************************)
\* onUpdateTask(task) = App's updateTaskInMindMap.
UpdateTask(updatedTask) ==
    /\ SetMindMap(updateTaskInMindMap(mindMap, updatedTask))
    /\ last' = "updateTaskInMindMap"
    /\ lastProposal' = <<>>
    /\ replayed' = FALSE
    /\ UNCHANGED <<chat, settled, tasks, selectedNode, isEditing, editNode, touched>>

\* Row i shows the edit form instead of the task.
RowEdited(i) == editingTaskId = <<Get(tasks[i], "id")>>

\* The truthiness of an optional string: null, undefined and "" are falsy.
Truthy(value) == value # <<>> /\ value[1] # "" /\ value[1] # UNDEFINED

\* { ...task, completed: !task.completed }
Toggled(task) == Spread(task, [completed |-> ~task.completed])

\* The circle button of row i.
ToggleCompleted(i) ==
    /\ ~RowEdited(i)
    /\ UpdateTask(Toggled(tasks[i]))
    /\ UNCHANGED <<editingTaskId, editValues>>

startEditing(i) ==
    /\ ~RowEdited(i)
    /\ editingTaskId' = <<Get(tasks[i], "id")>>
    /\ editValues' = tasks[i]
    /\ UNCHANGED <<chat, settled, mindMap, tasks, isSyncingTasks, syncs, selectedNode, isEditing,
                   editNode, touched, last, lastProposal, replayed, version>>

\* onChange of a field of the task form: setEditValues({...editValues, key: value})
ChangeTaskField(i, key, value) ==
    /\ RowEdited(i)
    /\ editValues' = Spread(editValues, [k \in {key} |-> value])
    /\ UNCHANGED <<chat, settled, mindMap, tasks, isSyncingTasks, syncs, selectedNode, isEditing,
                   editNode, editingTaskId, touched, last, lastProposal, replayed, version>>

cancelEditing(i) ==
    /\ RowEdited(i)
    /\ editingTaskId' = <<>>
    /\ editValues' = EmptyObj
    /\ UNCHANGED <<chat, settled, mindMap, tasks, isSyncingTasks, syncs, selectedNode, isEditing,
                   editNode, touched, last, lastProposal, replayed, version>>

\* if (editingTaskId && editValues): editValues is an object, which is always
\* truthy; with a falsy editingTaskId the button does nothing.
saveEditing(i) ==
    /\ RowEdited(i)
    /\ IF Truthy(editingTaskId)
           THEN /\ UpdateTask(editValues)
                /\ editingTaskId' = <<>>
                /\ editValues' = EmptyObj
           ELSE UNCHANGED vars

(***************************************************************************)
(* ChatWindow: the input line, handleSend and the proposals of the         *)
(* assistant, and the speech recognition that dictates into the input     *)
(* line.  A text is a sequence of characters.                              *)
(***************************************************************************)
\* The characters String.prototype.trim strips, WhiteSpace and LineTerminator
\* of ECMAScript: space, tab, line feed, carriage return, form feed, line
\* tabulation, U+00A0, U+FEFF and U+1680.  The others (U+2000 to U+200A,
\* U+2028, U+2029, U+202F, U+205F, U+3000) cannot be written in a string
\* here, and no text of the model holds one.
IsSpace(c) == c \in {" ", "\t", "\n", "\r", "\f", "", " ", "﻿", " "}

\* String.prototype.trim
Trim(text) ==
    LET kept == {i \in 1..Len(text) : ~IsSpace(text[i])}
    IN  IF kept = {} THEN <<>>
        ELSE SubSeq(text, CHOOSE i \in kept : \A j \in kept : i <= j,
                          CHOOSE i \in kept : \A j \in kept : i >= j)

\* What the user types into the input line.
ChatInputs == {<<"\t", " ">>, <<"g", "o", " ">>}

\* The longest text dictated into the input line.
MaxInput == 7

\* The result events of the recognition: an interim result, and two final
\* results of which resultIndex passes the first.
SpeechEvents ==
    { [resultIndex |-> 0,
       results |-> <<[isFinal |-> FALSE, transcript |-> <<"n", "o">>]>>],
      [resultIndex |-> 1,
       results |-> <<[isFinal |-> TRUE, transcript |-> <<"g", "o">>],
                     [isFinal |-> TRUE, transcript |-> <<"n", "o", "w">>]>>] }

\* The content of the assistant message of a failed call.
ERROR_TEXT ==
    <<"I encountered an error processing your input. My neural pathways might be congested.">>

\* The suffix handleApply adds to the content of the message.
APPLIED_TEXT == <<"\n\n(Changes applied to mind map)">>

\* A proposal whose entries do not follow MindMapChangeProposal: a type and a
\* priority outside their enums, a node and an edge without id, next to a
\* well-formed node with its edge.
MalformedProposal ==
    [nodesToAdd |-> <<[id |-> "x", label |-> "X", type |-> "alien",
                       priority |-> "urgent"],
                      [label |-> "No id", type |-> "concept"],
                      GymNode>>,
     edgesToAdd |-> <<[source |-> "me", target |-> "x"],
                      [id |-> "e3", source |-> "health", target |-> "gym"]>>]

\* The proposals the assistant attaches to its replies in the chat.
ChatProposals ==
    { [nodesToUpdate |-> <<[id |-> "work", label |-> "L3", priority |-> "high"]>>],
      MalformedProposal }

\* What processBrainInput resolves to: the parsed reply, with or without
\* suggestedChanges, or { reply: response.text } when the reply does not
\* parse.
AssistantResponses ==
    {[reply |-> <<"{">>]}
        \cup {[reply |-> <<"o", "k">>, suggestedChanges |-> p] : p \in ChatProposals}

\* Date.now(), read for an id of Date.now() + delta.  The wall clock can show
\* any time, earlier ones too, and the ids made of it are only compared for
\* equality: one reading stands for each id of the list that the new id can
\* repeat, and one for all readings whose id the list does not hold.
Ticks(delta) ==
    LET ids  == {messages[k].id : k \in 1..Len(messages)}
        next == IF ids = {} THEN 1
                ELSE 1 + CHOOSE a \in ids : \A b \in ids : b <= a
    IN  {id - delta : id \in ids \cup {next}}

\* m.suggestedChanges as an optional value.
Pending(m) ==
    IF "suggestedChanges" \in DOMAIN m THEN m.suggestedChanges ELSE <<>>

\* The messages of the user in the list.
UserCount(list) == Cardinality({i \in 1..Len(list) : list[i].role = "user"})

\* onChange of the input line: setInput(e.target.value)
TypeInput(text) ==
    /\ input' = text
    /\ UNCHANGED <<messages, isProcessing, calls, isListening, recognition,
                   outcome>>
    /\ UNCHANGED <<settled, mindMap, tasks, isSyncingTasks, syncs, selectedNode,
                   isEditing, editNode, editingTaskId, editValues, touched,
                   last, lastProposal, replayed, version>>

\* recognition.stop(): a recognition that listens delivers what it has and
\* ends.
Stop(state) == IF state = "active" THEN "stopping" ELSE state

\* recognition.start(): it throws InvalidStateError unless the recognition
\* is idle, which ends the handler.
Start(state) == IF state = "idle" THEN "started" ELSE state

\* The microphone button, in a browser that has SpeechRecognition.
toggleListening ==
    /\ recognition' = IF isListening THEN Stop(recognition)
                                      ELSE Start(recognition)
    /\ UNCHANGED <<messages, input, isProcessing, calls, isListening, outcome>>
    /\ UNCHANGED <<settled, mindMap, tasks, isSyncingTasks, syncs, selectedNode,
                   isEditing, editNode, editingTaskId, editValues, touched,
                   last, lastProposal, replayed, version>>

\* recognitionRef.current.onstart
onstart ==
    /\ recognition = "started"
    /\ recognition' = "active"
    /\ isListening' = TRUE
    /\ UNCHANGED <<messages, input, isProcessing, calls, outcome>>
    /\ UNCHANGED <<settled, mindMap, tasks, isSyncingTasks, syncs, selectedNode,
                   isEditing, editNode, editingTaskId, editValues, touched,
                   last, lastProposal, replayed, version>>

\* The loop of onresult over event.results[i], i counted from 0.
RECURSIVE FinalTranscript(_, _)
FinalTranscript(event, i) ==
    IF i >= Len(event.results) THEN <<>>
    ELSE (IF event.results[i + 1].isFinal
          THEN event.results[i + 1].transcript ELSE <<>>)
            \o FinalTranscript(event, i + 1)

\* recognitionRef.current.onresult:
\* setInput(prev => (prev + ' ' + finalTranscript).trim())
onresult(event) ==
    LET finalTranscript == FinalTranscript(event, event.resultIndex)
    IN  /\ recognition \in {"active", "stopping"}
        /\ Len(input) + 1 + Len(finalTranscript) <= MaxInput
        /\ input' = IF finalTranscript # <<>>
                       THEN Trim(input \o <<" ">> \o finalTranscript)
                       ELSE input
        /\ UNCHANGED <<messages, isProcessing, calls, isListening, recognition,
                       outcome>>
        /\ UNCHANGED <<settled, mindMap, tasks, isSyncingTasks, syncs,
                       selectedNode, isEditing, editNode, editingTaskId,
                       editValues, touched, last, lastProposal, replayed,
                       version>>

\* recognitionRef.current.onerror; the end event follows.
onerror ==
    /\ recognition \in {"started", "active", "stopping"}
    /\ recognition' = "failed"
    /\ isListening' = FALSE
    /\ UNCHANGED <<messages, input, isProcessing, calls, outcome>>
    /\ UNCHANGED <<settled, mindMap, tasks, isSyncingTasks, syncs, selectedNode,
                   isEditing, editNode, editingTaskId, editValues, touched,
                   last, lastProposal, replayed, version>>

\* recognitionRef.current.onend
onend ==
    /\ recognition \in {"active", "stopping", "failed"}
    /\ recognition' = "idle"
    /\ isListening' = FALSE
    /\ UNCHANGED <<messages, input, isProcessing, calls, outcome>>
    /\ UNCHANGED <<settled, mindMap, tasks, isSyncingTasks, syncs, selectedNode,
                   isEditing, editNode, editingTaskId, editValues, touched,
                   last, lastProposal, replayed, version>>

\* handleSend up to its await: the user message, and processBrainInput called
\* with the text and the mindMap of the render.
handleSend ==
    LET textToSend == Trim(input)
    IN  /\ ~(textToSend = <<>> /\ ~isProcessing)
        /\ UserCount(messages) < MaxSends
        /\ recognition' = IF isListening THEN Stop(recognition) ELSE recognition
        /\ \E now \in Ticks(0) :
            messages' = Append(messages,
                    [id |-> now, role |-> "user", content |-> textToSend])
        /\ input' = <<>>
        /\ isProcessing' = TRUE
        /\ calls' = Append(calls, [input |-> textToSend, mindMap |-> version])
        /\ UNCHANGED <<isListening, outcome>>
        /\ UNCHANGED <<settled, mindMap, tasks, isSyncingTasks, syncs,
                       selectedNode, isEditing, editNode, editingTaskId,
                       editValues, touched, last, lastProposal, replayed,
                       version>>

\* The send button, disabled={!input.trim() || isProcessing}.
SendButton ==
    /\ ~(Trim(input) = <<>> \/ isProcessing)
    /\ handleSend

\* onKeyDown of the input line: e.key === 'Enter' && handleSend()
EnterKey == handleSend

\* The assistant message of a resolved call.
AssistantMsg(now, response) ==
    [id |-> now + 1, role |-> "assistant", content |-> response.reply,
     suggestedChanges |->
        IF "suggestedChanges" \in DOMAIN response
        THEN <<response.suggestedChanges>> ELSE <<>>]

\* The assistant message of a rejected call.
ErrorMsg(now) == [id |-> now + 1, role |-> "assistant", content |-> ERROR_TEXT]

\* handleSend after its await, the call resolved: the try block, then finally.
AssistantResolved(i, response) ==
    /\ \E now \in Ticks(1) :
        messages' = Append(messages, AssistantMsg(now, response))
    /\ isProcessing' = FALSE
    /\ calls' = RemoveAt(calls, i)
    /\ outcome' = "resolved"
    /\ UNCHANGED <<input, isListening, recognition>>
    /\ UNCHANGED <<settled, mindMap, tasks, isSyncingTasks, syncs, selectedNode,
                   isEditing, editNode, editingTaskId, editValues, touched,
                   last, lastProposal, replayed, version>>

\* The rejection of a call, had the flag been left set.
AssistantRejectedStuck(i) ==
    /\ \E now \in Ticks(1) :
        messages' = Append(messages, ErrorMsg(now))
    /\ calls' = RemoveAt(calls, i)
    /\ outcome' = "rejected"
    /\ UNCHANGED <<input, isProcessing, isListening, recognition>>
    /\ UNCHANGED <<settled, mindMap, tasks, isSyncingTasks, syncs, selectedNode,
                   isEditing, editNode, editingTaskId, editValues, touched,
                   last, lastProposal, replayed, version>>

\* handleSend after its await, the call rejected: the catch block, then
\* finally.
AssistantRejected(i) ==
    /\ \E now \in Ticks(1) :
        messages' = Append(messages, ErrorMsg(now))
    /\ isProcessing' = FALSE
    /\ calls' = RemoveAt(calls, i)
    /\ outcome' = "rejected"
    /\ UNCHANGED <<input, isListening, recognition>>
    /\ UNCHANGED <<settled, mindMap, tasks, isSyncingTasks, syncs, selectedNode,
                   isEditing, editNode, editingTaskId, editValues, touched,
                   last, lastProposal, replayed, version>>

\* The message after "Apply to Map".
AppliedMsg(m) ==
    Spread(m, [suggestedChanges |-> <<>>, content |-> m.content \o APPLIED_TEXT])

\* The message after "Ignore".
IgnoredMsg(m) == Spread(m, [suggestedChanges |-> <<>>])

\* "Apply to Map", had the message kept its proposal.
handleApplyKeep(k) ==
    /\ Pending(messages[k]) # <<>>
    /\ onApplyChanges(Pending(messages[k])[1])
    /\ UNCHANGED chat

\* "Apply to Map" of message k: handleApply(m.id, m.suggestedChanges).
handleApply(k) ==
    /\ Pending(messages[k]) # <<>>
    /\ onApplyChanges(Pending(messages[k])[1])
    /\ messages' = [j \in 1..Len(messages) |->
                        IF messages[j].id = messages[k].id
                        THEN AppliedMsg(messages[j]) ELSE messages[j]]
    /\ UNCHANGED <<input, isProcessing, calls, isListening, recognition,
                   outcome>>

\* "Ignore" of message k.
Ignore(k) ==
    /\ Pending(messages[k]) # <<>>
    /\ messages' = [j \in 1..Len(messages) |->
                        IF messages[j].id = messages[k].id
                        THEN IgnoredMsg(messages[j]) ELSE messages[j]]
    /\ UNCHANGED <<input, isProcessing, calls, isListening, recognition,
                   outcome>>
    /\ UNCHANGED <<settled, mindMap, tasks, isSyncingTasks, syncs, selectedNode,
                   isEditing, editNode, editingTaskId, editValues, touched,
                   last, lastProposal, replayed, version>>

(***************************************************************************)
(* The application.                                                        *)
(***************************************************************************)
\* App mounts: the seed graph, no tasks, and the effect's first syncTasks().
Init ==
    /\ mindMap = INITIAL_DATA
    /\ tasks = <<>>
    /\ isSyncingTasks = TRUE
    /\ syncs = <<[mindMap |-> 0]>>
    /\ selectedNode = <<>>
    /\ isEditing = FALSE
    /\ editNode = <<>>
    /\ editingTaskId = <<>>
    /\ editValues = EmptyObj
    /\ touched = {}
    /\ last = "mount"
    /\ lastProposal = <<>>
    /\ replayed = FALSE
    /\ version = 0
    /\ settled = <<>>
    /\ messages = <<>>
    /\ input = <<>>
    /\ isProcessing = FALSE
    /\ calls = <<>>
    /\ isListening = FALSE
    /\ recognition = "idle"
    /\ outcome = "none"

\* The outstanding extraction calls settle, the timer fires.
SyncSteps ==
    \/ TimerSync
    \/ ManualSync
    \/ \E i \in 1..Len(syncs) : \E reply \in TaskReplies : SyncResolved(i, reply)
    \/ \E i \in 1..Len(syncs) : SyncRejected(i)

\* The user works in the MindMap component.
MindMapSteps ==
    \/ \E i \in 1..Len(mindMap.nodes) : ClickNode(i)
    \/ ClickBackground
    \/ handleEditClick
    \/ \E inp \in NodeFormInputs : ChangeField(inp[1], inp[2])
    \/ CancelEdit
    \/ saveEdit

\* The user works in the task edit form of the TaskWidget component.
TaskFormSteps ==
    \/ \E i \in 1..Len(tasks) : startEditing(i)
    \/ \E i \in 1..Len(tasks) : \E inp \in TaskFormInputs : ChangeTaskField(i, inp[1], inp[2])
    \/ \E i \in 1..Len(tasks) : cancelEditing(i)
    \/ \E i \in 1..Len(tasks) : saveEditing(i)

\* The reconciler: the graph store under the proposals of the assistant.
Next ==
    \E proposal \in Proposals : ApplyChanges(proposal)

Spec == Init /\ [][Next]_vars

\* The three writers of mindMap with the node edit form.
NextNodeEdit ==
    \/ \E proposal \in FewProposals : ApplyChanges(proposal)
    \/ \E i \in 1..Len(tasks) : ToggleCompleted(i)
    \/ MindMapSteps
    \/ \E i \in 1..Len(syncs) : SyncResolved(i, <<WorkTask>>)

SpecNodeEdit == Init /\ [][NextNodeEdit]_vars

\* The task list with the task edit form.
NextTaskEdit ==
    \/ \E proposal \in FewProposals : ApplyChanges(proposal)
    \/ \E i \in 1..Len(tasks) : ToggleCompleted(i)
    \/ TaskFormSteps
    \/ \E i \in 1..Len(syncs) : \E reply \in TaskReplies : SyncResolved(i, reply)

SpecTaskEdit == Init /\ [][NextTaskEdit]_vars

\* The task projection: the writers of mindMap and the syncTasks calls.
NextSync ==
    \/ \E proposal \in FewProposals : ApplyChanges(proposal)
    \/ \E i \in 1..Len(tasks) : ToggleCompleted(i)
    \/ SyncSteps

SpecSync == Init /\ [][NextSync]_vars

\* The task projection with the answers of the extraction service.
NextExtract ==
    \/ \E proposal \in FewProposals : ApplyChanges(proposal)
    \/ \E i \in 1..Len(tasks) : ToggleCompleted(i)
    \/ \E i \in 1..Len(syncs) : \E answer \in ServiceOutcomes :
            ExtractionSettled(i, answer)

SpecExtract == Init /\ [][NextExtract]_vars

\* The user works in the ChatWindow component.
ChatSteps ==
    \/ \E text \in {t \in ChatInputs : Trim(t) # <<>>} : TypeInput(text)
    \/ SendButton
    \/ EnterKey
    \/ \E i \in 1..Len(calls) :
        \E response \in {r \in AssistantResponses : "suggestedChanges" \in DOMAIN r} :
            AssistantResolved(i, response)
    \/ \E i \in 1..Len(calls) : AssistantRejected(i)
    \/ \E k \in 1..Len(messages) : handleApply(k)
    \/ \E k \in 1..Len(messages) : Ignore(k)

\* The chat with the store its proposals are applied to.
NextChat == ChatSteps

SpecChat == Init /\ [][NextChat]_vars

\* The input line: what is typed and what is dictated, and the sends.
NextInput ==
    \/ \E text \in ChatInputs : TypeInput(text)
    \/ toggleListening
    \/ onstart
    \/ \E event \in SpeechEvents : onresult(event)
    \/ onerror
    \/ onend
    \/ SendButton
    \/ EnterKey
    \/ \E i \in 1..Len(calls) :
        \E response \in {r \in AssistantResponses : "suggestedChanges" \notin DOMAIN r} :
            AssistantResolved(i, response)
    \/ \E i \in 1..Len(calls) : AssistantRejected(i)

SpecInput == Init /\ [][NextInput]_vars

(***************************************************************************)
(* Properties of the graph store.                                          *)
(***************************************************************************)
\* The node of the map with this id (the first one).
NodeById(map, id) == map.nodes[FindIndex(map.nodes, id)]

\* The ids among S and the ends of the edges that touch S, edges read as
\* undirected; only ids of nodes of the map count.
Step(map, S) ==
    LET ids  == {Get(map.nodes[i], "id") : i \in 1..Len(map.nodes)}
        near == {Get(map.edges[i], "target") :
                    i \in {j \in 1..Len(map.edges) : Get(map.edges[j], "source") \in S}}
                \cup
                {Get(map.edges[i], "source") :
                    i \in {j \in 1..Len(map.edges) : Get(map.edges[j], "target") \in S}}
    IN  S \cup (near \cap ids)

RECURSIVE ReachableFrom(_, _)
ReachableFrom(map, S) ==
    IF Step(map, S) = S THEN S ELSE ReachableFrom(map, Step(map, S))

\* A proposal that carries nothing but this one list.
Only(key, list) == [k \in {key} |-> list]

\* C1: applying a change proposal twice in a row gives the node and edge
\* collections that applying it once gives: the second application of any
\* proposal, in any reachable graph, changes nothing.
C1_ApplyTwiceIsApplyOnce ==
    \A p \in Proposals :
        LET once == handleApplyChanges(mindMap, p)
        IN  handleApplyChanges(once, p) = once

\* A proposal that adds gym with an edge to it and updates it has just been
\* applied twice in a row to the seed graph: the graph is what one
\* application gives.
C1_Witness ==
    /\ last = "handleApplyChanges"
    /\ replayed
    /\ version = 2
    /\ LET p == lastProposal[1]
       IN  /\ HasId(ListOf(p, "nodesToAdd"), "gym")
           /\ HasId(ListOf(p, "nodesToUpdate"), "gym")
           /\ mindMap = handleApplyChanges(INITIAL_DATA, p)
           /\ mindMap # INITIAL_DATA

\* C2: no two nodes of the store share an id and no two edges share an id,
\* whatever proposals (also ones listing an id twice), direct node edits and
\* task write-backs were applied to the seed graph.
C2_NoDuplicateIds ==
    /\ \A i, j \in 1..Len(mindMap.nodes) :
        i # j => Get(mindMap.nodes[i], "id") # Get(mindMap.nodes[j], "id")
    /\ \A i, j \in 1..Len(mindMap.edges) :
        i # j => Get(mindMap.edges[i], "id") # Get(mindMap.edges[j], "id")

\* The proposal that lists gym twice and e3 twice was applied, then a node
\* edit was saved.
C2_Witness ==
    /\ last = "handleUpdateNode"
    /\ HasId(mindMap.nodes, "gym")
    /\ HasId(mindMap.edges, "e3")
    /\ Len(mindMap.nodes) = 4
    /\ Len(mindMap.edges) = 3

\* C3: every edge of the store has a source and a target that are ids of
\* nodes of the store.
C3_NoDanglingEdges ==
    \A i \in 1..Len(mindMap.edges) :
        /\ HasId(mindMap.nodes, Get(mindMap.edges[i], "source"))
        /\ HasId(mindMap.nodes, Get(mindMap.edges[i], "target"))

\* C4: every node of the store is reachable from the seed root me, edges read
\* as undirected.
C4_ConnectedFromMe ==
    \A i \in 1..Len(mindMap.nodes) :
        Get(mindMap.nodes[i], "id") \in ReachableFrom(mindMap, {"me"})

\* C5: a nodesToUpdate entry whose id is in the store sets the keys it
\* carries to its values and leaves the node's other keys, the other nodes
\* and the edges as they are.
C5_UpdateChangesOnlyItsFields ==
    \A u \in NodesToUpdateEntries :
        HasId(mindMap.nodes, u.id) =>
            LET idx  == FindIndex(mindMap.nodes, u.id)
                old  == mindMap.nodes[idx]
                next == handleApplyChanges(mindMap, Only("nodesToUpdate", <<u>>))
                new  == next.nodes[idx]
            IN  /\ next.edges = mindMap.edges
                /\ Len(next.nodes) = Len(mindMap.nodes)
                /\ \A i \in 1..Len(mindMap.nodes) :
                    i # idx => next.nodes[i] = mindMap.nodes[i]
                /\ DOMAIN new = DOMAIN old \cup DOMAIN u
                /\ \A f \in DOMAIN u : new[f] = u[f]
                /\ \A f \in DOMAIN old \ DOMAIN u : new[f] = old[f]

\* An update of work's label was applied: the label is the entry's, the
\* description, type, icon and position are the seed's.
C5_Witness ==
    /\ last = "handleApplyChanges"
    /\ HasId(mindMap.nodes, "work")
    /\ LET work == NodeById(mindMap, "work")
       IN  /\ work.label = "L2"
           /\ "priority" \notin DOMAIN work
           /\ work.description = INITIAL_DATA.nodes[2].description
           /\ work.type = "concept"
           /\ work.x = 150

\* The keys of a node that a task write-back sets.
TaskKeys == {"label", "date", "reminderDate", "priority", "isCompleted"}

\* The tasks the TaskWidget can pass to onUpdateTask in this state: a row
\* with its completion toggled, or the values of the task form.
TasksToWrite ==
    {Toggled(tasks[i]) : i \in {j \in 1..Len(tasks) : ~RowEdited(j)}}
        \cup {editValues : i \in {j \in 1..Len(tasks) :
                                      RowEdited(j) /\ Truthy(editingTaskId)}}

\* C6: saving a node edit leaves every key of that node the user did not
\* change in the form at the value the store holds when the edit is saved.
C6_SaveKeepsUntouchedFields ==
    [][ (last' = "handleUpdateNode" /\ version' = version + 1) =>
            LET id  == Get(editNode[1], "id")
                old == NodeById(mindMap, id)
                new == NodeById(mindMap', id)
            IN  \A f \in (DOMAIN old \cup DOMAIN new) \ touched :
                    /\ f \in DOMAIN old
                    /\ f \in DOMAIN new
                    /\ new[f] = old[f] ]_vars

\* C7: a task write-back to a node of the store sets label, date,
\* reminderDate, priority and isCompleted from the task's title, dueDate,
\* reminderDate, urgency and completed, and leaves the node's other keys, the
\* other nodes and the edges as they are.
C7_WriteBackSetsTaskFields ==
    \A t \in TasksToWrite :
        HasId(mindMap.nodes, t.nodeId) =>
            LET idx  == FindIndex(mindMap.nodes, t.nodeId)
                old  == mindMap.nodes[idx]
                next == updateTaskInMindMap(mindMap, t)
                new  == next.nodes[idx]
            IN  /\ new.label = t.title
                /\ new.date = Get(t, "dueDate")
                /\ new.reminderDate = Get(t, "reminderDate")
                /\ new.priority = t.urgency
                /\ new.isCompleted = t.completed
                /\ DOMAIN new = DOMAIN old \cup TaskKeys
                /\ \A f \in DOMAIN old \ TaskKeys : new[f] = old[f]
                /\ Len(next.nodes) = Len(mindMap.nodes)
                /\ \A i \in 1..Len(mindMap.nodes) :
                    i # idx => next.nodes[i] = mindMap.nodes[i]
                /\ next.edges = mindMap.edges

\* The task of node work was edited in the task form (title, urgency) and
\* saved: work carries the task's values and the seed's other fields.
C7_Witness ==
    /\ last = "updateTaskInMindMap"
    /\ LET work == NodeById(mindMap, "work")
       IN  /\ work.label = "New"
           /\ work.priority = "high"
           /\ work.date = "Fri"
           /\ work.reminderDate = UNDEFINED
           /\ work.isCompleted = FALSE
           /\ work.type = "concept"
           /\ work.icon = "briefcase"
           /\ work.description = INITIAL_DATA.nodes[2].description
           /\ work.x = 150 /\ work.y = 50

\* C8: right after a completion toggle or a saved task edit, the task list
\* holds the task as it was passed to updateTaskInMindMap.
C8_TaskListReflectsEdit ==
    [][ /\ \A i \in 1..Len(tasks) :
            ToggleCompleted(i) =>
                \E j \in 1..Len(tasks') : tasks'[j] = Toggled(tasks[i])
        /\ \A i \in 1..Len(tasks) :
            saveEditing(i) =>
                \E j \in 1..Len(tasks') : tasks'[j] = editValues ]_vars

\* C9: an update whose target id is not in the store leaves the nodes and the
\* edges as they are: a nodesToUpdate entry, a task write-back, a node edit.
C9_UnknownTargetIsNoOp ==
    /\ \A u \in NodesToUpdateEntries :
        ~HasId(mindMap.nodes, u.id) =>
            handleApplyChanges(mindMap, Only("nodesToUpdate", <<u>>)) = mindMap
    /\ \A t \in TaskEntries \cup TasksToWrite :
        ~HasId(mindMap.nodes, t.nodeId) =>
            updateTaskInMindMap(mindMap, t) = mindMap
    /\ \A n \in NodesToAddEntries \cup NodesToUpdateEntries :
        ~HasId(mindMap.nodes, n.id) =>
            handleUpdateNode(mindMap, n) = mindMap

\* The task whose nodeId is no node was edited in the task form and saved,
\* as the only write so far: the graph is the seed graph.
C9_Witness ==
    /\ last = "updateTaskInMindMap"
    /\ version = 1
    /\ mindMap = INITIAL_DATA
    /\ \E i \in 1..Len(tasks) : tasks[i].nodeId = "ghost"

\* C10: a nodesToAdd entry whose id is in the store is not inserted, and the
\* node of that id keeps all its fields unless the proposal's nodesToUpdate
\* lists the id too.
C10_ExistingIdIsSkipped ==
    \A p \in Proposals :
        LET next == handleApplyChanges(mindMap, p)
        IN  \A i \in 1..Len(mindMap.nodes) :
                LET id == Get(mindMap.nodes[i], "id")
                IN  HasId(ListOf(p, "nodesToAdd"), id) =>
                        /\ Cardinality({j \in 1..Len(next.nodes) :
                                            Get(next.nodes[j], "id") = id}) = 1
                        /\ ~HasId(ListOf(p, "nodesToUpdate"), id) =>
                                next.nodes[i] = mindMap.nodes[i]

\* A proposal that lists work in nodesToAdd, and not in nodesToUpdate, was
\* applied to a graph that holds work: work is the seed's node, once.
C10_Witness ==
    /\ last = "handleApplyChanges"
    /\ HasId(ListOf(lastProposal[1], "nodesToAdd"), "work")
    /\ ~HasId(ListOf(lastProposal[1], "nodesToUpdate"), "work")
    /\ NodeById(mindMap, "work") = INITIAL_DATA.nodes[2]
    /\ Cardinality({j \in 1..Len(mindMap.nodes) :
                        Get(mindMap.nodes[j], "id") = "work"}) = 1

(***************************************************************************)
(* Properties of the task projection.                                      *)
(***************************************************************************)
\* The step completes a syncTasks call.
SyncCompletes == Len(syncs') < Len(syncs)

\* C11: a sync whose extraction resolves makes the task list the returned
\* list; a sync whose extraction rejects leaves the task list and all other
\* state as they are, and the writers of the graph stay enabled.
C11_SyncReplacesOrKeeps ==
    /\ [][ SyncCompletes =>
            /\ settled'[1] = "resolved" => tasks' = settled'[2]
            /\ settled'[1] = "rejected" =>
                    UNCHANGED <<tasks, selectedNode, isEditing, editNode,
                                editingTaskId, editValues, chat>>
            /\ mindMap' = mindMap ]_vars
    /\ [](settled # <<>> /\ settled[1] = "rejected" /\ version < MaxOps =>
            ENABLED (\E proposal \in FewProposals : ApplyChanges(proposal)))

\* A sync resolved with two tasks, the graph changed, and a later sync
\* rejected: the list is still the two tasks.
C11_Witness ==
    /\ settled # <<>>
    /\ settled[1] = "rejected"
    /\ tasks = <<LostTask, WorkTask>>
    /\ mindMap # INITIAL_DATA

\* C12: a syncTasks call started while others are outstanding joins them,
\* the completion of one call leaves the others outstanding, and the task
\* list is the result of the call that resolved last, whichever was started
\* first.
C12_OverlappingSyncsLastWins ==
    /\ [][ /\ Len(syncs') > Len(syncs) =>
                syncs' = Append(syncs, [mindMap |-> version'])
           /\ SyncCompletes =>
                /\ Len(syncs') = Len(syncs) - 1
                /\ \E i \in 1..Len(syncs) :
                    /\ settled'[3] = syncs[i].mindMap
                    /\ \A j \in 1..Len(syncs') :
                        syncs'[j] = IF j < i THEN syncs[j] ELSE syncs[j + 1]
                /\ settled'[1] = "resolved" => tasks' = settled'[2] ]_vars
    /\ [](settled # <<>> /\ settled[1] = "resolved" => tasks = settled[2])

\* The mount's call and the call started by a change of the graph were
\* outstanding together and both completed, the mount's call last: the list
\* is what the mount's call resolved to.
C12_Witness ==
    /\ version = 1
    /\ syncs = <<>>
    /\ settled = <<"resolved", <<LostTask>>, 0>>
    /\ tasks = <<LostTask>>
    /\ ~isSyncingTasks

(***************************************************************************)
(* Properties of the chat.                                                 *)
(***************************************************************************)
\* C13: while isProcessing is set no step starts another processBrainInput
\* call or appends another user message, and the timer's sync can start.
C13_NoSendWhileProcessing ==
    /\ [][ isProcessing =>
            /\ Len(calls') <= Len(calls)
            /\ UserCount(messages') = UserCount(messages) ]_vars
    /\ [](isProcessing /\ Len(syncs) < MaxSyncs => ENABLED TimerSync)

\* The step completes a processBrainInput call.
CallCompletes == Len(calls') < Len(calls)

\* C14: a processBrainInput call that rejects appends one assistant message
\* with the fallback text and no suggestedChanges and leaves the graph and
\* the task list as they are; the completion of a call clears isProcessing,
\* and the send button then accepts a text.
C14_AssistantFailureIsContained ==
    /\ [][ CallCompletes =>
            /\ isProcessing' = FALSE
            /\ outcome' = "rejected" =>
                /\ Len(messages') = Len(messages) + 1
                /\ SubSeq(messages', 1, Len(messages)) = messages
                /\ LET m == messages'[Len(messages')]
                   IN  /\ m.role = "assistant"
                       /\ m.content = ERROR_TEXT
                       /\ Pending(m) = <<>>
                /\ mindMap' = mindMap
                /\ tasks' = tasks ]_vars
    /\ [](/\ outcome = "rejected"
          /\ ~isProcessing
          /\ Trim(input) # <<>>
          /\ UserCount(messages) < MaxSends
          => ENABLED SendButton)

\* The first call rejected, and the user has sent a second text since.
C14_Witness ==
    /\ outcome = "rejected"
    /\ Len(messages) = 3
    /\ messages[1].role = "user"
    /\ messages[2] = ErrorMsg(messages[2].id - 1)
    /\ messages[3].role = "user"
    /\ messages[3].content = <<"g", "o">>
    /\ isProcessing
    /\ Len(calls) = 1
    /\ mindMap = INITIAL_DATA
    /\ tasks = <<>>

(***************************************************************************)
(* Properties of the ids.                                                  *)
(***************************************************************************)
\* C15: no step removes or renames a node or an edge: every node keeps its
\* place and id, every edge its place, id, source and target, and the seed's
\* nodes me, work, health and edges e1, e2 are in every state.
C15_IdsAreStable ==
    /\ [][ /\ Len(mindMap'.nodes) >= Len(mindMap.nodes)
           /\ \A i \in 1..Len(mindMap.nodes) :
                Get(mindMap'.nodes[i], "id") = Get(mindMap.nodes[i], "id")
           /\ Len(mindMap'.edges) >= Len(mindMap.edges)
           /\ \A i \in 1..Len(mindMap.edges) :
                /\ Get(mindMap'.edges[i], "id") = Get(mindMap.edges[i], "id")
                /\ mindMap'.edges[i].source = mindMap.edges[i].source
                /\ mindMap'.edges[i].target = mindMap.edges[i].target ]_vars
    /\ [](/\ \A id \in {"me", "work", "health"} : HasId(mindMap.nodes, id)
          /\ \A i \in 1..Len(INITIAL_DATA.edges) :
                \E j \in 1..Len(mindMap.edges) :
                    /\ mindMap.edges[j].id = INITIAL_DATA.edges[i].id
                    /\ mindMap.edges[j].source = INITIAL_DATA.edges[i].source
                    /\ mindMap.edges[j].target = INITIAL_DATA.edges[i].target)

\* A proposal added gym and its edge, then the task of work was completed
\* in the task list: the seed and gym are all there.
C15_Witness ==
    /\ last = "updateTaskInMindMap"
    /\ version = 2
    /\ HasId(mindMap.nodes, "gym")
    /\ HasId(mindMap.edges, "e3")
    /\ NodeById(mindMap, "work").isCompleted = TRUE
    /\ tasks = <<WorkTask>>

\* C16: every node of the store has an id, a type of NodeTypes and, if it
\* has a priority, one of Priorities, and every edge has an id: a proposal
\* entry that is not so is left out of the store.
C16_MalformedEntriesRejected ==
    /\ \A i \in 1..Len(mindMap.nodes) :
        LET n == mindMap.nodes[i]
        IN  /\ "id" \in DOMAIN n
            /\ Get(n, "type") \in NodeTypes
            /\ "priority" \in DOMAIN n => n.priority \in Priorities
    /\ \A i \in 1..Len(mindMap.edges) : "id" \in DOMAIN mindMap.edges[i]

(***************************************************************************)
(* Properties of the order of a merge.                                     *)
(***************************************************************************)
\* The only write so far applied the proposal of the seed-merge scenario:
\* node gym and edge e3 from health to gym.
SeedMergeApplied ==
    /\ last = "handleApplyChanges"
    /\ version = 1
    /\ ListOf(lastProposal[1], "nodesToAdd") = <<GymNode>>
    /\ ListOf(lastProposal[1], "nodesToUpdate") = <<>>
    /\ ListOf(lastProposal[1], "edgesToAdd") =
            <<[id |-> "e3", source |-> "health", target |-> "gym"]>>

\* C17: the seed graph after the proposal that adds gym and e3 health-gym
\* has the nodes me, work, health, gym and the edges e1, e2, e3, gym is
\* reachable from me, and the seed's nodes and edges are as they were.
C17_SeedGraphMerge ==
    SeedMergeApplied =>
        /\ [i \in 1..Len(mindMap.nodes) |-> Get(mindMap.nodes[i], "id")]
                = <<"me", "work", "health", "gym">>
        /\ [i \in 1..Len(mindMap.edges) |-> Get(mindMap.edges[i], "id")]
                = <<"e1", "e2", "e3">>
        /\ "gym" \in ReachableFrom(mindMap, {"me"})
        /\ SubSeq(mindMap.nodes, 1, 3) = INITIAL_DATA.nodes
        /\ SubSeq(mindMap.edges, 1, 2) = INITIAL_DATA.edges

\* The scenario's proposal was applied to the seed graph: gym is a resource
\* node and e3 leads from health to it.
C17_Witness ==
    /\ SeedMergeApplied
    /\ NodeById(mindMap, "gym") = GymNode
    /\ mindMap.edges[3] = [id |-> "e3", source |-> "health", target |-> "gym"]

\* The ids of the nodes of a list.
IdsOf(list) == {Get(list[i], "id") : i \in 1..Len(list)}

\* Every edge of the map has its source and its target among the map's nodes.
NoDanglingIn(map) ==
    \A i \in 1..Len(map.edges) :
        /\ Get(map.edges[i], "source") \in IdsOf(map.nodes)
        /\ Get(map.edges[i], "target") \in IdsOf(map.nodes)

\* Every edge of the proposal names nodes of the map or of its nodesToAdd.
EdgesClosed(map, proposal) ==
    LET known == IdsOf(map.nodes) \cup IdsOf(ListOf(proposal, "nodesToAdd"))
        edges == ListOf(proposal, "edgesToAdd")
    IN  \A i \in 1..Len(edges) :
            /\ Get(edges[i], "source") \in known
            /\ Get(edges[i], "target") \in known

\* C18: applied to a store without dangling edge, a proposal whose edges
\* name only nodes of the store or of its own nodesToAdd gives a store
\* without dangling edge.
C18_NodesBeforeEdges ==
    \A p \in Proposals :
        (NoDanglingIn(mindMap) /\ EdgesClosed(mindMap, p)) =>
            NoDanglingIn(handleApplyChanges(mindMap, p))

\* A proposal brought gym together with an edge from me to it: the edge is
\* in the store and both its ends are nodes.
C18_Witness ==
    /\ last = "handleApplyChanges"
    /\ version = 1
    /\ ~HasId(INITIAL_DATA.nodes, "gym")
    /\ HasId(ListOf(lastProposal[1], "nodesToAdd"), "gym")
    /\ \E i \in 1..Len(mindMap.edges) :
        /\ mindMap.edges[i].source = "me"
        /\ mindMap.edges[i].target = "gym"
    /\ HasId(mindMap.nodes, "gym")
    /\ NoDanglingIn(mindMap)

\* The node after the entries of the list that carry its id are merged into
\* it one after the other, in list order.
RECURSIVE MergedInOrder(_, _)
MergedInOrder(node, updates) ==
    IF updates = <<>> THEN node
    ELSE MergedInOrder(
            IF Get(Head(updates), "id") = Get(node, "id")
            THEN Spread(node, Head(updates)) ELSE node,
            Tail(updates))

\* C19: after a proposal, each node is the node the store had under its id,
\* or else the first nodesToAdd entry of that id, with the nodesToUpdate
\* entries of that id merged into it in list order: an update reaches a node
\* the same proposal adds, and of two updates of one field the later wins.
C19_AddThenUpdateInListOrder ==
    \A p \in Proposals :
        LET next    == handleApplyChanges(mindMap, p)
            toAdd   == ListOf(p, "nodesToAdd")
            updates == ListOf(p, "nodesToUpdate")
        IN  /\ IdsOf(next.nodes) = IdsOf(mindMap.nodes) \cup IdsOf(toAdd)
            /\ \A id \in IdsOf(next.nodes) :
                LET base == IF HasId(mindMap.nodes, id)
                            THEN NodeById(mindMap, id)
                            ELSE toAdd[FindIndex(toAdd, id)]
                IN  NodeById(next, id) = MergedInOrder(base, updates)

\* A first proposal added gym and updated its description, a second one
\* updated the label of work twice: gym has the description, work the
\* second label.
C19_Witness ==
    /\ last = "handleApplyChanges"
    /\ version = 2
    /\ ListOf(lastProposal[1], "nodesToUpdate") =
            <<[id |-> "work", label |-> "L2"],
              [id |-> "work", label |-> "L3", priority |-> "high"]>>
    /\ ListOf(lastProposal[1], "nodesToAdd") = <<>>
    /\ NodeById(mindMap, "work").label = "L3"
    /\ HasId(mindMap.nodes, "gym")
    /\ NodeById(mindMap, "gym") = Spread(GymNode, [description |-> "D2"])

(***************************************************************************)
(* Properties of the proposals in the chat.                                *)
(***************************************************************************)
\* C20: a message whose suggestedChanges is cleared never gets one again;
\* the graph changes only in a step that applies the pending proposal of a
\* message to the graph as it is in that step and clears that message; a
\* step that clears a proposal otherwise leaves the graph as it is.
C20_ProposalConsumedOnce ==
    [][ /\ Len(messages') >= Len(messages)
        /\ \A k \in 1..Len(messages) :
            Pending(messages[k]) = <<>> => Pending(messages'[k]) = <<>>
        /\ (mindMap' # mindMap \/ version' # version) =>
            \E k \in 1..Len(messages) :
                /\ Pending(messages[k]) # <<>>
                /\ mindMap' = handleApplyChanges(mindMap, Pending(messages[k])[1])
                /\ Pending(messages'[k]) = <<>>
        /\ ( /\ version' = version
             /\ \E k \in 1..Len(messages) :
                    Pending(messages[k]) # <<>> /\ Pending(messages'[k]) = <<>> )
            => mindMap' = mindMap ]_vars

\* Two texts were sent before either reply came, both replies carried a
\* proposal, and both were applied, each to the graph of its apply: the
\* graph has the changes of both and no message has a proposal left.
C20_Witness ==
    /\ version = 2
    /\ Len(messages) = 4
    /\ messages[1].role = "user"
    /\ messages[2].role = "user"
    /\ \A k \in 3..4 :
        /\ messages[k].role = "assistant"
        /\ Pending(messages[k]) = <<>>
        /\ messages[k].content = <<"o", "k">> \o APPLIED_TEXT
    /\ HasId(mindMap.nodes, "gym")
    /\ NodeById(mindMap, "work").label = "L3"

(***************************************************************************)
(* Properties of the extraction and of the syncs a change starts.          *)
(***************************************************************************)
\* C21: an extraction whose answer does not parse resolves the sync with the
\* empty list, so the task list becomes empty; an extraction whose call
\* throws rejects it, and the task list stays as it is.
C21_ParseFailureEmptiesTasks ==
    [][ \A i \in 1..Len(syncs) : \A answer \in ServiceOutcomes :
            ExtractionSettled(i, answer) =>
                /\ (~answer.threw /\ ParseJSON(answer.text) = <<>>) =>
                        /\ tasks' = <<>>
                        /\ settled'[1] = "resolved"
                /\ answer.threw =>
                        /\ tasks' = tasks
                        /\ settled'[1] = "rejected" ]_vars

\* The task of work was in the list and was completed there; the sync that
\* the completion started got an answer that is no JSON: the list is empty.
C21_Witness ==
    /\ last = "updateTaskInMindMap"
    /\ version = 1
    /\ "isCompleted" \in DOMAIN NodeById(mindMap, "work")
    /\ NodeById(mindMap, "work").isCompleted
    /\ settled = <<"resolved", <<>>, 1>>
    /\ tasks = <<>>
    /\ syncs = <<>>

\* C22: every step that changes the graph is a setMindMap call, and such a
\* call starts a sync that reads the new graph next to the syncs that are
\* outstanding, none of which it ends; the timer, when it fires, starts a
\* sync that reads the graph of that moment.
C22_EveryChangeStartsSync ==
    /\ [][ /\ mindMap' # mindMap => version' = version + 1
           /\ version' # version =>
                /\ syncs' = Append(syncs, [mindMap |-> version'])
                /\ isSyncingTasks' ]_vars
    /\ [](Len(syncs) < MaxSyncs =>
            ENABLED (TimerSync /\ syncs'[Len(syncs')].mindMap = version))

\* A proposal was applied and a node edit saved while the sync of the mount
\* was outstanding: three syncs are outstanding, one for each graph.
C22_Witness ==
    /\ last = "handleUpdateNode"
    /\ version = 2
    /\ syncs = <<[mindMap |-> 0], [mindMap |-> 1], [mindMap |-> 2]>>
    /\ isSyncingTasks

\* C23: a sync that read an older graph never replaces the list of a sync
\* that read a newer one, and once every sync has completed, the last of
\* them resolved, the list is the one extracted from the graph as it is.
C23_NewestGraphWins ==
    /\ [][ ( /\ SyncCompletes
             /\ settled # <<>>
             /\ settled[1] = "resolved"
             /\ settled'[1] = "resolved" )
            => settled'[3] >= settled[3] ]_vars
    /\ [](syncs = <<>> /\ settled # <<>> /\ settled[1] = "resolved"
            => settled[3] = version)

====
